---- MODULE Spec2Model ----
(***************************************************************************)
(* A model of python_tools/flowchart_layout_tool.py: the draw.io document  *)
(* extractor (DrawioParser), the layout request builder and result applier *)
(* (ELKLayoutEngine), the document generator (DrawioGenerator) and the     *)
(* command entry point (main).                                             *)
(*                                                                         *)
(* A document is the sequence, in document order, of the elements that     *)
(* mxgraph_model.iter() yields.  An element is a record of the attributes  *)
(* the code reads.  An attribute read with cell.get(name) and tested for   *)
(* truth is "" when it is absent or empty (both are falsy in Python); the  *)
(* width and height of the geometry, read with a default, keep the         *)
(* difference between absent (Absent) and present.  geo says whether the   *)
(* element has an mxGeometry child, kids whether it has any child element  *)
(* (an xml.etree Element with no children is falsy).  Documents carry no   *)
(* XML namespace (self.namespace = ""), as the files the generator writes. *)
(* A style string is the set of its ";"-separated tokens; the keyword      *)
(* tests ("rhombus" in s_low) are made on the tokens.  Coordinates and     *)
(* routing points are not modelled.                                        *)
(***************************************************************************)
EXTENDS Integers, Sequences, FiniteSets, TLC

VARIABLES
  entry,        \* how the code is driven: "parse", "graph" or "main"
  pc,           \* the position of the driver
  doc,          \* the input document (the file at args.input)
  out_doc,      \* the document DrawioGenerator.generate wrote
  xml_path,     \* DrawioParser.xml_path: "input" or "output"
  cell_map,     \* DrawioParser.cell_map: cells in key insertion order
  pgraph,       \* DrawioParser.graph
  graph,        \* the FlowGraph held by the caller, the engine, the generator
  elk_graph,    \* the layout request _build_elk_graph returned
  elk_result,   \* the solver's response
  exc,          \* the exception raised, "" when none
  exit_status   \* the exit status of the command, -1 while it runs

vars == <<entry, pc, doc, out_doc, xml_path, cell_map, pgraph, graph,
          elk_graph, elk_result, exc, exit_status>>

(***************************************************************************)
(* Bounds.                                                                 *)
(***************************************************************************)
MaxCells == 3
MaxEdges == 1

(***************************************************************************)
(* Data definitions.                                                       *)
(***************************************************************************)
START == "start"
END == "end"
PROCESS == "process"
DECISION == "decision"
NodeType == {START, END, PROCESS, DECISION}

DefaultWidth == 120
DefaultHeight == 60

FlowNode(id, node_type, label, width, height) ==
  [id |-> id, node_type |-> node_type, label |-> label,
   width |-> width, height |-> height]

FlowEdge(id, source_id, target_id) ==
  [id |-> id, source_id |-> source_id, target_id |-> target_id,
   label |-> "", source_side |-> "SOUTH", target_side |-> "NORTH"]

FlowGraph == [nodes |-> <<>>, edges |-> <<>>]

\* graph.nodes is a dict: a sequence of FlowNode with distinct ids, in
\* insertion order.
NodeKeys(g) == {g.nodes[i].id : i \in 1..Len(g.nodes)}
NodeAt(g, nid) == g.nodes[CHOOSE i \in 1..Len(g.nodes) : g.nodes[i].id = nid]

(***************************************************************************)
(* Strings.                                                                *)
(***************************************************************************)
Absent == "<absent>"

\* str.lower() on the strings the model uses.
Lower(s) ==
  CASE s = "Y" -> "y"
    [] s = "N" -> "n"
    [] s = "Yes" -> "yes"
    [] s = "No" -> "no"
    [] s = "Maybe" -> "maybe"
    [] s = "Rhombus" -> "rhombus"
    [] s = "Ellipse" -> "ellipse"
    [] s = "edgeLabel" -> "edgelabel"
    [] s = "EDGELABEL" -> "edgelabel"
    [] OTHER -> s

\* kw in style.lower()
InLower(kw, style) == \E t \in style : Lower(t) = kw
\* kw in style
InStyle(kw, style) == kw \in style

\* float(s): the strings float() accepts, with their values.
FloatTable ==
  ("80" :> 80) @@ ("40" :> 40) @@ ("120" :> 120) @@ ("60" :> 60) @@
  ("120.0" :> 120) @@ ("60.0" :> 60) @@ ("80.0" :> 80) @@ ("40.0" :> 40)
IsFloat(s) == s \in DOMAIN FloatTable
\* str(x) of a float
StrFloat(x) == ToString(x) \o ".0"

(***************************************************************************)
(* Elements of a document.                                                 *)
(***************************************************************************)
Cell(id, parent, edge, source, target, style, connectable, value, geo, kids, width, height) ==
  [id |-> id, parent |-> parent, edge |-> edge, source |-> source,
   target |-> target, style |-> style, connectable |-> connectable,
   value |-> value, geo |-> geo, kids |-> kids, width |-> width,
   height |-> height]

Document(kind, cells) == [kind |-> kind, cells |-> cells]
NoDocument == Document("none", <<>>)

(***************************************************************************)
(* DrawioParser.                                                           *)
(***************************************************************************)
HasKey(m, k) == \E i \in 1..Len(m) : m[i].id = k
MapGet(m, k) == m[CHOOSE i \in 1..Len(m) : m[i].id = k]

\* MapPut as cell_map.setdefault(cid, cell) would do it: a known key keeps
\* its value.
MapPutFirst(m, cell) == IF HasKey(m, cell.id) THEN m ELSE Append(m, cell)

\* self.cell_map[cid] = cell: a new key is appended, a known key keeps its
\* position and takes the new value.
MapPut(m, cell) ==
  IF HasKey(m, cell.id)
    THEN [i \in 1..Len(m) |-> IF m[i].id = cell.id THEN cell ELSE m[i]]
    ELSE Append(m, cell)

\* for cell in mxgraph_model.iter(): cid = cell.get("id"); if cid: ...
RECURSIVE BuildCellMap(_, _)
BuildCellMap(cells, m) ==
  IF cells = <<>> THEN m
  ELSE BuildCellMap(Tail(cells),
                    IF Head(cells).id # "" THEN MapPut(m, Head(cells)) ELSE m)

_is_edge(cell) ==
  cell.edge = "1" \/ (cell.source # "" /\ cell.target # "")

_is_node(cell, cmap) ==
  /\ ~(cell.id \in {"0", "1"} \/ ~cell.geo \/ _is_edge(cell))
  /\ ~(InLower("edgelabel", cell.style) \/ cell.connectable = "0")
  /\ ~(/\ cell.parent # ""
       /\ cell.parent \notin {"0", "1"}
       /\ HasKey(cmap, cell.parent)
       /\ MapGet(cmap, cell.parent).kids
       /\ _is_edge(MapGet(cmap, cell.parent)))

\* The style-based role of _parse_node.
StyleType(style) ==
  IF InLower("rhombus", style) \/ InLower("diamond", style) THEN DECISION
  ELSE IF InLower("ellipse", style) THEN START
  ELSE PROCESS

\* float(geo.get(name, default)) raises ValueError on a present attribute
\* that is no number.
GeoRaises(cell) ==
  \/ (cell.width # Absent /\ ~IsFloat(cell.width))
  \/ (cell.height # Absent /\ ~IsFloat(cell.height))
GeoFloat(attr, default) == IF attr = Absent THEN default ELSE FloatTable[attr]

\* The result of _parse_node on graph g: the graph and the exception raised.
_parse_node(cell, g) ==
  IF GeoRaises(cell) THEN [graph |-> g, exc |-> "ValueError"]
  ELSE LET node == FlowNode(cell.id, StyleType(cell.style), cell.value,
                            GeoFloat(cell.width, DefaultWidth),
                            GeoFloat(cell.height, DefaultHeight))
           put == IF cell.id \in NodeKeys(g)
                    THEN [i \in 1..Len(g.nodes) |->
                            IF g.nodes[i].id = cell.id THEN node ELSE g.nodes[i]]
                    ELSE Append(g.nodes, node)
       IN [graph |-> [g EXCEPT !.nodes = put], exc |-> ""]

\* _parse_edge without the test for an edge of the same pair.
_parse_edge_all(cell, g) ==
  IF cell.source # "" /\ cell.target # ""
    THEN [g EXCEPT !.edges = Append(g.edges,
                                    FlowEdge(cell.id, cell.source, cell.target))]
    ELSE g

_parse_edge(cell, g) ==
  IF cell.source # "" /\ cell.target # ""
     /\ ~\E i \in 1..Len(g.edges) :
           g.edges[i].source_id = cell.source /\ g.edges[i].target_id = cell.target
    THEN [g EXCEPT !.edges = Append(g.edges,
                                    FlowEdge(cell.id, cell.source, cell.target))]
    ELSE g

\* for cell in self.cell_map.values(): ... ; an exception ends the loop.
RECURSIVE ExtractLoop(_, _, _)
ExtractLoop(cells, cmap, r) ==
  IF cells = <<>> \/ r.exc # "" THEN r
  ELSE LET cell == Head(cells)
           r1 == IF _is_edge(cell) THEN [graph |-> _parse_edge(cell, r.graph), exc |-> ""]
                 ELSE IF _is_node(cell, cmap) THEN _parse_node(cell, r.graph)
                 ELSE r
       IN ExtractLoop(Tail(cells), cmap, r1)

\* y/yes -> "yes", n/no -> "no", anything else leaves the label as it is.
YesNo(value, old) ==
  IF Lower(value) \in {"y", "yes"} THEN "yes"
  ELSE IF Lower(value) \in {"n", "no"} THEN "no"
  ELSE old

\* One iteration of the loop of _extract_edge_labels.
EdgeLabel(edge, cmap) ==
  IF HasKey(cmap, edge.id) /\ MapGet(cmap, edge.id).kids
     /\ MapGet(cmap, edge.id).value # ""
    THEN YesNo(MapGet(cmap, edge.id).value, edge.label)
    ELSE LET hits == {i \in 1..Len(cmap) :
                        cmap[i].parent = edge.id /\ InStyle("edgeLabel", cmap[i].style)}
         IN IF hits = {} THEN edge.label
            ELSE YesNo(cmap[CHOOSE i \in hits : \A j \in hits : i <= j].value,
                       edge.label)

_extract_edge_labels(g, cmap) ==
  [g EXCEPT !.edges =
     [i \in 1..Len(g.edges) |->
        [g.edges[i] EXCEPT !.label = EdgeLabel(g.edges[i], cmap)]]]

InDegree(g, nid) == Cardinality({i \in 1..Len(g.edges) : g.edges[i].target_id = nid})
OutDegree(g, nid) == Cardinality({i \in 1..Len(g.edges) : g.edges[i].source_id = nid})

\* _infer_node_types with outs[nid] >= 0 for outs[nid] > 0.
_infer_node_types_ge(g) ==
  [g EXCEPT !.nodes =
     [i \in 1..Len(g.nodes) |->
        LET ins == InDegree(g, g.nodes[i].id)
            outs == OutDegree(g, g.nodes[i].id)
            t1 == IF ins = 0 /\ outs >= 0 THEN START ELSE g.nodes[i].node_type
            t2 == IF outs = 0 /\ ins > 0 THEN END ELSE t1
        IN [g.nodes[i] EXCEPT !.node_type = t2]]]

_infer_node_types(g) ==
  [g EXCEPT !.nodes =
     [i \in 1..Len(g.nodes) |->
        LET ins == InDegree(g, g.nodes[i].id)
            outs == OutDegree(g, g.nodes[i].id)
            t1 == IF ins = 0 /\ outs > 0 THEN START ELSE g.nodes[i].node_type
            t2 == IF outs = 0 /\ ins > 0 THEN END ELSE t1
        IN [g.nodes[i] EXCEPT !.node_type = t2]]]

(***************************************************************************)
(* ELKLayoutEngine.                                                        *)
(***************************************************************************)
Sides == {"N", "S", "E", "W"}
\* f"{nid}_N"
Port(nid, side) == nid \o "_" \o side

ElkNode(node) ==
  [id |-> node.id, width |-> node.width, height |-> node.height,
   ports |-> <<Port(node.id, "N"), Port(node.id, "S"),
               Port(node.id, "E"), Port(node.id, "W")>>]

\* ElkRouting with the test on the label turned round: only "yes" goes south.
ElkRoutingYes(src_node, edge) ==
  IF src_node.node_type = START THEN [side |-> "S", priority |-> 10]
  ELSE IF src_node.node_type = DECISION
    THEN IF edge.label = "yes" THEN [side |-> "S", priority |-> 10]
         ELSE [side |-> "E", priority |-> 1]
  ELSE [side |-> "S", priority |-> 10]

\* The source side and the priority of an edge leaving src_node.
ElkRouting(src_node, edge) ==
  IF src_node.node_type = START THEN [side |-> "S", priority |-> 10]
  ELSE IF src_node.node_type = DECISION
    THEN IF edge.label = "no" THEN [side |-> "E", priority |-> 1]
         ELSE [side |-> "S", priority |-> 10]
  ELSE [side |-> "S", priority |-> 10]

\* The descriptor of graph.edges[i] (i counts from 1, enumerate from 0).
ElkEdge(g, i) ==
  LET edge == g.edges[i]
      r == ElkRouting(NodeAt(g, edge.source_id), edge)
  IN [id |-> IF edge.id # "" THEN edge.id ELSE "e" \o ToString(i - 1),
      sources |-> <<Port(edge.source_id, r.side)>>,
      targets |-> <<Port(edge.target_id, "N")>>,
      priority |-> r.priority]

\* for i, edge in enumerate(graph.edges): if not src_node: continue
RECURSIVE ElkEdges(_, _)
ElkEdges(g, i) ==
  IF i > Len(g.edges) THEN <<>>
  ELSE IF g.edges[i].source_id \in NodeKeys(g)
    THEN <<ElkEdge(g, i)>> \o ElkEdges(g, i + 1)
  ELSE ElkEdges(g, i + 1)

_build_elk_graph(g) ==
  [id |-> "root",
   children |-> [i \in 1..Len(g.nodes) |-> ElkNode(g.nodes[i])],
   edges |-> ElkEdges(g, 1)]

NoElkGraph == [id |-> "", children |-> <<>>, edges |-> <<>>]

\* What _call_elk_robust can meet: elkjs cannot be loaded, the solver runs
\* over its 30 s, exits non-zero, prints no JSON, prints JSON that is no
\* layout, or prints the request back with the geometry added.
ElkOutcomes == {"no_elkjs", "timeout", "nonzero", "not_json", "malformed", "layout"}
ElkException(outcome) ==
  CASE outcome = "no_elkjs" -> "CalledProcessError"
    [] outcome = "timeout" -> "TimeoutExpired"
    [] outcome = "nonzero" -> "RuntimeError"
    [] outcome = "not_json" -> "JSONDecodeError"
    [] OTHER -> ""
NoElkResult == [form |-> "none", edges |-> <<>>]
ElkResult(outcome, request) == [form |-> outcome, edges |-> request.edges]

\* port.split("_")[-1] for a port named by Port.
SplitLast(port) ==
  CHOOSE s \in Sides : \E n \in {"", "a", "b", "z", "A", "B", "C", "D"} : port = Port(n, s)

\* The edge part of _apply_layout: one result edge applied to graph.edges.
ApplyEdge(edges, edge_res) ==
  LET hits == {i \in 1..Len(edges) : edges[i].id = edge_res.id}
  IN IF hits = {} THEN edges
     ELSE LET k == CHOOSE i \in hits : \A j \in hits : i <= j
          IN [edges EXCEPT ![k].source_side = SplitLast(edge_res.sources[1]),
                           ![k].target_side = SplitLast(edge_res.targets[1])]

RECURSIVE ApplyEdges(_, _)
ApplyEdges(edges, results) ==
  IF results = <<>> THEN edges
  ELSE ApplyEdges(ApplyEdge(edges, Head(results)), Tail(results))

_apply_layout(g, result) == [g EXCEPT !.edges = ApplyEdges(g.edges, result.edges)]

(***************************************************************************)
(* DrawioGenerator.                                                        *)
(***************************************************************************)
BaseStyle == {"html=1", "whiteSpace=wrap"}
\* NodeStyle with the DECISION entry a copy of the START entry.
NodeStyleCopied(node_type) ==
  CASE node_type \in {START, DECISION} -> BaseStyle \cup {"ellipse", "fillColor=#d5e8d4", "strokeColor=#82b366"}
    [] node_type = END -> BaseStyle \cup {"ellipse", "fillColor=#f8cecc", "strokeColor=#b85450"}
    [] OTHER -> BaseStyle \cup {"rounded=0", "fillColor=#dae8fc", "strokeColor=#6c8ebf"}

NodeStyle(node_type) ==
  CASE node_type = START -> BaseStyle \cup {"ellipse", "fillColor=#d5e8d4", "strokeColor=#82b366"}
    [] node_type = END -> BaseStyle \cup {"ellipse", "fillColor=#f8cecc", "strokeColor=#b85450"}
    [] node_type = DECISION -> BaseStyle \cup {"rhombus", "fillColor=#fff2cc", "strokeColor=#d6b656"}
    [] OTHER -> BaseStyle \cup {"rounded=0", "fillColor=#dae8fc", "strokeColor=#6c8ebf"}

_write_node(node) ==
  Cell(node.id, "1", "", "", "", NodeStyle(node.node_type), "", node.label,
       TRUE, TRUE, StrFloat(node.width), StrFloat(node.height))

\* pmap.get(side, default)
AnchorX(side, default) ==
  CASE side \in {"N", "S"} -> "0.5" [] side = "E" -> "1" [] side = "W" -> "0" [] OTHER -> default
AnchorY(side, default) ==
  CASE side = "N" -> "0" [] side = "S" -> "1" [] side \in {"E", "W"} -> "0.5" [] OTHER -> default

EdgeStyle(edge) ==
  {"edgeStyle=orthogonalEdgeStyle", "rounded=0", "orthogonalLoop=1",
   "jettySize=auto", "html=1", "entryPerimeter=0",
   "exitX=" \o AnchorX(edge.source_side, "0.5"),
   "exitY=" \o AnchorY(edge.source_side, "1"),
   "entryX=" \o AnchorX(edge.target_side, "0.5"),
   "entryY=" \o AnchorY(edge.target_side, "0")}

_write_edge(edge) ==
  Cell(edge.id, "1", "1", edge.source_id, edge.target_id, EdgeStyle(edge), "",
       IF edge.label = "yes" THEN "Y" ELSE IF edge.label = "no" THEN "N" ELSE "",
       TRUE, TRUE, Absent, Absent)

generate(g) ==
  Document("drawio",
    <<Cell("0", "", "", "", "", {}, "", "", FALSE, FALSE, Absent, Absent),
      Cell("1", "0", "", "", "", {}, "", "", FALSE, FALSE, Absent, Absent)>>
    \o [i \in 1..Len(g.nodes) |-> _write_node(g.nodes[i])]
    \o [i \in 1..Len(g.edges) |-> _write_edge(g.edges[i])])

(***************************************************************************)
(* Inputs: the elements a document is written from, and the nodes and      *)
(* edges a FlowGraph is built from.                                        *)
(***************************************************************************)
NodeCell(id, style, width, height) ==
  Cell(id, "1", "", "", "", style, "", "", TRUE, TRUE, width, height)
EdgeCell(id, edge, source, target, value, kids) ==
  Cell(id, "1", edge, source, target, {}, "", value, kids, kids, Absent, Absent)
ChildCell(id, parent, style, value) ==
  Cell(id, parent, "", "", "", style, "", value, TRUE, TRUE, Absent, Absent)

\* Nodes with the three shapes, edges among them and to a missing node.
StructCells ==
  {NodeCell(id, style, Absent, Absent) :
     id \in {"a", "b"}, style \in {{}, {"Rhombus"}, {"ellipse"}}}
  \cup {EdgeCell("e", "1", "a", "b", "", TRUE),
        EdgeCell("e", "1", "b", "a", "", TRUE),
        EdgeCell("f", "", "a", "b", "", TRUE),
        EdgeCell("f", "1", "b", "a", "", TRUE),
        EdgeCell("f", "1", "a", "z", "", TRUE),
        EdgeCell("a", "1", "b", "b", "", TRUE)}

\* One edge id with its own values, and the elements parented to it.
LabelCells ==
  {EdgeCell("e", "1", "a", "b", "", TRUE),
   EdgeCell("e", "1", "a", "b", "Yes", TRUE),
   EdgeCell("e", "1", "a", "b", "N", TRUE),
   EdgeCell("e", "1", "a", "b", "Maybe", TRUE),
   EdgeCell("e", "1", "a", "b", "Yes", FALSE),
   EdgeCell("e", "1", "a", "b", "", FALSE),
   ChildCell("l", "e", {"edgeLabel"}, "Y"),
   ChildCell("l", "e", {"edgeLabel"}, "Maybe"),
   ChildCell("m", "e", {"edgeLabel"}, "No"),
   ChildCell("m", "e", {"EDGELABEL"}, "No"),
   ChildCell("l", "e", {}, "No")}

\* Nodes with sizes that are absent, numbers and no numbers, and an element
\* without an id.
SizeCells ==
  {NodeCell("a", {}, w, h) :
     w \in {Absent, "80", "abc"}, h \in {Absent, "40"}}
  \cup {NodeCell("", {}, Absent, Absent),
        NodeCell("a", {}, Absent, ""),
        NodeCell("b", {}, Absent, Absent),
        NodeCell("b", {}, "80", "abc")}

Families == {StructCells, LabelCells, SizeCells}
DocKinds == {"drawio", "malformed", "nomodel"}

NodeIds == {"a", "b"}
EndIds == {"a", "b", "z"}
Labels == {"", "yes", "no"}
EdgeId(i) == "e" \o ToString(i)

\* The scenario: A(START), B(DECISION), C(PROCESS), D(END), A->B,
\* B->C "yes", B->D "no".
ScenarioGraph ==
  [nodes |-> <<FlowNode("A", START, "", DefaultWidth, DefaultHeight),
               FlowNode("B", DECISION, "Proceed?", DefaultWidth, DefaultHeight),
               FlowNode("C", PROCESS, "", DefaultWidth, DefaultHeight),
               FlowNode("D", END, "", DefaultWidth, DefaultHeight)>>,
   edges |-> <<FlowEdge("e1", "A", "B"),
               [FlowEdge("e2", "B", "C") EXCEPT !.label = "yes"],
               [FlowEdge("e3", "B", "D") EXCEPT !.label = "no"]>>]

(***************************************************************************)
(* Initial states.                                                         *)
(***************************************************************************)
InitCommon ==
  /\ out_doc = NoDocument
  /\ xml_path = "input"
  /\ cell_map = <<>>
  /\ pgraph = FlowGraph
  /\ elk_graph = NoElkGraph
  /\ elk_result = NoElkResult
  /\ exc = ""
  /\ exit_status = -1

\* DrawioParser.parse on a document.
Init ==
  /\ entry = "parse"
  /\ pc = "input"
  /\ doc \in {Document(k, <<>>) : k \in DocKinds}
  /\ graph = FlowGraph
  /\ InitCommon

\* The builder and the generator on a FlowGraph built directly.
InitGraph ==
  /\ entry = "graph"
  /\ pc = "graph"
  /\ doc = NoDocument
  /\ graph \in {FlowGraph, ScenarioGraph}
  /\ InitCommon

\* main() on a document.
InitMain ==
  /\ entry = "main"
  /\ pc = "input"
  /\ doc \in {Document(k, <<>>) : k \in DocKinds}
  /\ graph = FlowGraph
  /\ InitCommon

(***************************************************************************)
(* Actions.                                                                *)
(***************************************************************************)
\* The document gets one more element.
AddCell ==
  /\ pc = "input"
  /\ doc.kind = "drawio"
  /\ Len(doc.cells) < MaxCells
  /\ \E F \in Families : \E c \in F :
       /\ \A i \in 1..Len(doc.cells) : doc.cells[i] \in F
       /\ doc' = [doc EXCEPT !.cells = Append(doc.cells, c)]
  /\ UNCHANGED <<entry, pc, out_doc, xml_path, cell_map, pgraph, graph,
                 elk_graph, elk_result, exc, exit_status>>

\* graph.nodes[id] = FlowNode(...)
AddNode ==
  /\ entry = "graph"
  /\ pc = "graph"
  /\ \E id \in NodeIds, t \in NodeType :
       LET node == FlowNode(id, t, "", DefaultWidth, DefaultHeight)
       IN graph' = [graph EXCEPT !.nodes =
                      IF id \in NodeKeys(graph)
                        THEN [i \in 1..Len(graph.nodes) |->
                                IF graph.nodes[i].id = id THEN node ELSE graph.nodes[i]]
                        ELSE Append(graph.nodes, node)]
  /\ UNCHANGED <<entry, pc, doc, out_doc, xml_path, cell_map, pgraph,
                 elk_graph, elk_result, exc, exit_status>>

\* graph.edges.append(FlowEdge(...))
AddEdge ==
  /\ entry = "graph"
  /\ pc = "graph"
  /\ Len(graph.edges) < MaxEdges
  /\ \E s \in EndIds, t \in EndIds, l \in Labels :
       graph' = [graph EXCEPT !.edges =
                   Append(graph.edges,
                          [FlowEdge(EdgeId(Len(graph.edges) + 1), s, t) EXCEPT !.label = l])]
  /\ UNCHANGED <<entry, pc, doc, out_doc, xml_path, cell_map, pgraph,
                 elk_graph, elk_result, exc, exit_status>>

\* main: subprocess.run(["node", "-v"], check=True); sys.exit(1) on failure.
CheckNode ==
  /\ entry = "main"
  /\ pc = "input"
  /\ \E installed \in BOOLEAN :
       IF installed
         THEN pc' = "main" /\ exit_status' = exit_status
         ELSE pc' = "exit" /\ exit_status' = 1
  /\ UNCHANGED <<entry, doc, out_doc, xml_path, cell_map, pgraph, graph,
                 elk_graph, elk_result, exc>>

\* DrawioParser(path): on the input, or on the document just generated.
NewParser ==
  /\ <<entry, pc>> \in {<<"parse", "input">>, <<"main", "main">>, <<"graph", "generated">>}
  /\ xml_path' = IF entry = "graph" THEN "output" ELSE "input"
  /\ cell_map' = <<>>
  /\ pgraph' = FlowGraph
  /\ pc' = "parse"
  /\ UNCHANGED <<entry, doc, out_doc, graph, elk_graph, elk_result, exc, exit_status>>

File == IF xml_path = "output" THEN out_doc ELSE doc

\* parse: ET.parse, the search for mxGraphModel, the id index.
ParseDocument ==
  /\ pc = "parse"
  /\ IF File.kind = "malformed"
       THEN pc' = "raised" /\ exc' = "ParseError" /\ cell_map' = cell_map
     ELSE IF File.kind = "nomodel"
       THEN pc' = "raised" /\ exc' = "ValueError" /\ cell_map' = cell_map
     ELSE pc' = "indexed" /\ exc' = exc /\ cell_map' = BuildCellMap(File.cells, cell_map)
  /\ UNCHANGED <<entry, doc, out_doc, xml_path, pgraph, graph, elk_graph,
                 elk_result, exit_status>>

\* parse: the loop over cell_map.values().
ExtractCells ==
  /\ pc = "indexed"
  /\ LET r == ExtractLoop(cell_map, cell_map, [graph |-> pgraph, exc |-> ""])
     IN /\ pgraph' = r.graph
        /\ exc' = r.exc
        /\ pc' = IF r.exc = "" THEN "extracted" ELSE "raised"
  /\ UNCHANGED <<entry, doc, out_doc, xml_path, cell_map, graph, elk_graph,
                 elk_result, exit_status>>

ExtractEdgeLabels ==
  /\ pc = "extracted"
  /\ pgraph' = _extract_edge_labels(pgraph, cell_map)
  /\ pc' = "labelled"
  /\ UNCHANGED <<entry, doc, out_doc, xml_path, cell_map, graph, elk_graph,
                 elk_result, exc, exit_status>>

\* parse: _infer_node_types and return self.graph.
InferNodeTypes ==
  /\ pc = "labelled"
  /\ pgraph' = _infer_node_types(pgraph)
  /\ pc' = "parsed"
  /\ UNCHANGED <<entry, doc, out_doc, xml_path, cell_map, graph, elk_graph,
                 elk_result, exc, exit_status>>

\* _build_elk_graph(graph): on a graph built directly, or in layout() on the
\* graph parse returned.
BuildElkGraph ==
  /\ <<entry, pc>> \in {<<"graph", "graph">>, <<"main", "parsed">>}
  /\ graph' = IF entry = "main" THEN pgraph ELSE graph
  /\ elk_graph' = _build_elk_graph(graph')
  /\ pc' = "built"
  /\ UNCHANGED <<entry, doc, out_doc, xml_path, cell_map, pgraph, elk_result,
                 exc, exit_status>>

\* _call_elk_robust
CallElk ==
  /\ entry = "main"
  /\ pc = "built"
  /\ \E outcome \in ElkOutcomes :
       IF ElkException(outcome) # ""
         THEN pc' = "raised" /\ exc' = ElkException(outcome) /\ elk_result' = elk_result
         ELSE pc' = "called" /\ exc' = exc /\ elk_result' = ElkResult(outcome, elk_graph)
  /\ UNCHANGED <<entry, doc, out_doc, xml_path, cell_map, pgraph, graph,
                 elk_graph, exit_status>>

\* _apply_layout: a response that is no layout raises on its first missing key.
ApplyLayout ==
  /\ entry = "main"
  /\ pc = "called"
  /\ IF elk_result.form = "malformed"
       THEN pc' = "raised" /\ exc' = "KeyError" /\ graph' = graph
       ELSE pc' = "applied" /\ exc' = exc /\ graph' = _apply_layout(graph, elk_result)
  /\ UNCHANGED <<entry, doc, out_doc, xml_path, cell_map, pgraph, elk_graph,
                 elk_result, exit_status>>

\* DrawioGenerator(graph).generate(path): open() may fail.
Generate ==
  /\ <<entry, pc>> \in {<<"graph", "graph">>, <<"main", "applied">>}
  /\ \E writable \in BOOLEAN :
       IF writable
         THEN pc' = "generated" /\ exc' = exc /\ out_doc' = generate(graph)
         ELSE pc' = "raised" /\ exc' = "OSError" /\ out_doc' = out_doc
  /\ UNCHANGED <<entry, doc, xml_path, cell_map, pgraph, graph, elk_graph,
                 elk_result, exit_status>>

\* main: except Exception as e: logger.error(...); traceback.print_exc(),
\* after which main returns and the interpreter exits with status 0.
HandleException ==
  /\ entry = "main"
  /\ pc = "raised"
  /\ pc' = "exit"
  /\ exit_status' = 0
  /\ UNCHANGED <<entry, doc, out_doc, xml_path, cell_map, pgraph, graph,
                 elk_graph, elk_result, exc>>

\* main: logger.info("Done"), return.
Done ==
  /\ entry = "main"
  /\ pc = "generated"
  /\ pc' = "exit"
  /\ exit_status' = 0
  /\ UNCHANGED <<entry, doc, out_doc, xml_path, cell_map, pgraph, graph,
                 elk_graph, elk_result, exc>>

(***************************************************************************)
(* Specifications.                                                         *)
(***************************************************************************)
Next ==
  \/ AddCell
  \/ NewParser
  \/ ParseDocument
  \/ ExtractCells
  \/ ExtractEdgeLabels
  \/ InferNodeTypes

NextGraph ==
  \/ AddNode
  \/ AddEdge
  \/ BuildElkGraph
  \/ Generate
  \/ NewParser
  \/ ParseDocument
  \/ ExtractCells
  \/ ExtractEdgeLabels
  \/ InferNodeTypes

NextMain ==
  \/ AddCell
  \/ CheckNode
  \/ NewParser
  \/ ParseDocument
  \/ ExtractCells
  \/ ExtractEdgeLabels
  \/ InferNodeTypes
  \/ BuildElkGraph
  \/ CallElk
  \/ ApplyLayout
  \/ Generate
  \/ HandleException
  \/ Done

Spec == Init /\ [][Next]_vars
SpecGraph == InitGraph /\ [][NextGraph]_vars
SpecMain == InitMain /\ [][NextMain]_vars

(***************************************************************************)
(* Properties.                                                             *)
(***************************************************************************)
EdgeInto(g, nid) == \E i \in 1..Len(g.edges) : g.edges[i].target_id = nid
EdgeFrom(g, nid) == \E i \in 1..Len(g.edges) : g.edges[i].source_id = nid
Pairs(g) == {<<g.edges[i].source_id, g.edges[i].target_id>> : i \in 1..Len(g.edges)}
EdgeIds(g) == {g.edges[i].id : i \in 1..Len(g.edges)}
NoPairTwice(g) ==
  \A i, j \in 1..Len(g.edges) :
    (g.edges[i].source_id = g.edges[j].source_id
     /\ g.edges[i].target_id = g.edges[j].target_id) => i = j

\* The first and the last element of the document that carries an id.
Occurrences(id) == {i \in 1..Len(doc.cells) : doc.cells[i].id = id}
FirstIndex(id) == CHOOSE i \in Occurrences(id) : \A j \in Occurrences(id) : i <= j
LastIndex(id) == CHOOSE i \in Occurrences(id) : \A j \in Occurrences(id) : j <= i
FirstCell(id) == doc.cells[FirstIndex(id)]
LastCell(id) == doc.cells[LastIndex(id)]
UniqueIds ==
  \A i, j \in 1..Len(doc.cells) :
    doc.cells[i].id # "" /\ (doc.cells[i].id = doc.cells[j].id => i = j)

\* C1: after parse, both ends of every edge of graph.edges are keys of
\* graph.nodes.
C1_EdgesReferenceNodes ==
  pc = "parsed" =>
    \A i \in 1..Len(pgraph.edges) :
      /\ pgraph.edges[i].source_id \in NodeKeys(pgraph)
      /\ pgraph.edges[i].target_id \in NodeKeys(pgraph)

\* C2: after parse, a node no edge enters and some edge leaves is START, a
\* node no edge leaves and some edge enters is END, whatever its style said,
\* and a node with no edge at all has the role its style gave it.
C2_RoleInference ==
  pc = "parsed" =>
    \A i \in 1..Len(pgraph.nodes) :
      LET n == pgraph.nodes[i] IN
        /\ (~EdgeInto(pgraph, n.id) /\ EdgeFrom(pgraph, n.id)) => n.node_type = START
        /\ (~EdgeFrom(pgraph, n.id) /\ EdgeInto(pgraph, n.id)) => n.node_type = END
        /\ (~EdgeFrom(pgraph, n.id) /\ ~EdgeInto(pgraph, n.id))
             => n.node_type = StyleType(MapGet(cell_map, n.id).style)

\* A diamond that only has outgoing edges became START and an ellipse that
\* only has incoming edges became END.
C2_Witness ==
  /\ pc = "parsed"
  /\ \E i, j \in 1..Len(pgraph.nodes) :
       /\ StyleType(MapGet(cell_map, pgraph.nodes[i].id).style) = DECISION
       /\ ~EdgeInto(pgraph, pgraph.nodes[i].id)
       /\ pgraph.nodes[i].node_type = START
       /\ StyleType(MapGet(cell_map, pgraph.nodes[j].id).style) = START
       /\ ~EdgeFrom(pgraph, pgraph.nodes[j].id)
       /\ pgraph.nodes[j].node_type = END

\* The claim's source side and priority for an edge.
ClaimedSide(g, edge) ==
  IF NodeAt(g, edge.source_id).node_type = DECISION /\ edge.label = "no" THEN "E" ELSE "S"
ClaimedPriority(g, edge) ==
  IF NodeAt(g, edge.source_id).node_type = DECISION /\ edge.label = "no" THEN 1 ELSE 10

\* C3: the request holds exactly one descriptor for every edge whose source
\* is a node of the graph and none for the others; its target port is the
\* NORTH port of the target, its source port is EAST with priority 1 for a
\* "no" edge leaving a DECISION and SOUTH with priority 10 otherwise.  For
\* the scenario graph: one priority-1 edge, B->D from EAST, and two
\* priority-10 edges from SOUTH.
C3_PortsAndPriorities ==
  pc = "built" =>
    /\ \A i \in 1..Len(graph.edges) :
         LET edge == graph.edges[i]
             ds == {k \in 1..Len(elk_graph.edges) : elk_graph.edges[k].id = edge.id}
         IN IF edge.source_id \in NodeKeys(graph)
              THEN /\ Cardinality(ds) = 1
                   /\ \A k \in ds :
                        /\ elk_graph.edges[k].targets = <<Port(edge.target_id, "N")>>
                        /\ elk_graph.edges[k].sources =
                             <<Port(edge.source_id, ClaimedSide(graph, edge))>>
                        /\ elk_graph.edges[k].priority = ClaimedPriority(graph, edge)
              ELSE ds = {}
    /\ Len(elk_graph.edges) =
         Cardinality({i \in 1..Len(graph.edges) : graph.edges[i].source_id \in NodeKeys(graph)})
    /\ graph = ScenarioGraph =>
         /\ {k \in 1..Len(elk_graph.edges) : elk_graph.edges[k].priority = 1} = {3}
         /\ elk_graph.edges[3].id = "e3"
         /\ elk_graph.edges[3].sources = <<"B_E">>
         /\ {k \in 1..Len(elk_graph.edges) : elk_graph.edges[k].priority = 10} = {1, 2}
         /\ elk_graph.edges[1].sources = <<"A_S">>
         /\ elk_graph.edges[2].sources = <<"B_S">>

\* The request of the scenario graph has been built.
C3_Witness ==
  /\ pc = "built"
  /\ graph = ScenarioGraph
  /\ Len(elk_graph.edges) = 3

\* The data-model invariants of a FlowGraph.
DataModel(g) ==
  /\ \A i, j \in 1..Len(g.nodes) : g.nodes[i].id = g.nodes[j].id => i = j
  /\ NodeKeys(g) \cap {"0", "1"} = {}
  /\ \A i, j \in 1..Len(g.edges) : g.edges[i].id = g.edges[j].id => i = j
  /\ EdgeIds(g) \cap NodeKeys(g) = {}
  /\ NoPairTwice(g)
NonEmptyIds(g) ==
  /\ "" \notin NodeKeys(g) \cup EdgeIds(g)
  /\ \A i \in 1..Len(g.edges) : g.edges[i].source_id # "" /\ g.edges[i].target_id # ""
\* The roles agree with the edges: what _infer_node_types would leave alone.
RolesFollowEdges(g) ==
  \A i \in 1..Len(g.nodes) :
    LET n == g.nodes[i] IN
      /\ (~EdgeInto(g, n.id) /\ EdgeFrom(g, n.id)) => n.node_type = START
      /\ (n.node_type = END) <=> (~EdgeFrom(g, n.id) /\ EdgeInto(g, n.id))
RoundTrip ==
  /\ NodeKeys(pgraph) = NodeKeys(graph)
  /\ Pairs(pgraph) = Pairs(graph)
  /\ \A id \in NodeKeys(graph) : NodeAt(pgraph, id).node_type = NodeAt(graph, id).node_type

\* C4 as stated: generate then parse keeps the node ids, the edge pairs and
\* every role, for every graph with the data-model invariants.
C4_RoundTrip ==
  (entry = "graph" /\ pc = "parsed" /\ DataModel(graph)) => RoundTrip

\* C4 as amended: the same for the graphs whose ids are not empty and whose
\* roles agree with their edges.
C4_RoundTripWhenRolesFollowEdges ==
  (entry = "graph" /\ pc = "parsed" /\ DataModel(graph) /\ NonEmptyIds(graph)
   /\ RolesFollowEdges(graph)) => RoundTrip

\* A graph with a START, an END and an edge has made the round trip.
C4_Witness ==
  /\ entry = "graph" /\ pc = "parsed"
  /\ DataModel(graph) /\ NonEmptyIds(graph) /\ RolesFollowEdges(graph)
  /\ Len(graph.nodes) = 2 /\ Len(graph.edges) = 1
  /\ \E i \in 1..Len(graph.nodes) : graph.nodes[i].node_type = END
  /\ RoundTrip

\* C5: a node element whose width or height is missing or no number gets
\* 120.0 or 60.0 for it, and extraction does not fail.
C5_SizeDefaults ==
  pc \in {"raised", "extracted", "labelled", "parsed"} =>
    \A i \in 1..Len(cell_map) :
      LET c == cell_map[i]
          bad_w == c.width = Absent \/ ~IsFloat(c.width)
          bad_h == c.height = Absent \/ ~IsFloat(c.height)
      IN (_is_node(c, cell_map) /\ (bad_w \/ bad_h)) =>
           /\ exc = ""
           /\ c.id \in NodeKeys(pgraph)
           /\ bad_w => NodeAt(pgraph, c.id).width = 120
           /\ bad_h => NodeAt(pgraph, c.id).height = 60

\* C6: an invocation in which a stage failed ends with a non-zero exit
\* status.
C6_FailureExitsNonZero ==
  (entry = "main" /\ pc = "exit" /\ exc # "") => exit_status # 0

\* The edge elements of the document that carry a pair.
Carriers(s, t) ==
  {i \in 1..Len(doc.cells) :
     _is_edge(doc.cells[i]) /\ doc.cells[i].source = s /\ doc.cells[i].target = t}
FirstCarrier(s, t) == CHOOSE i \in Carriers(s, t) : \A j \in Carriers(s, t) : i <= j
\* The ids whose last element is an edge element that carries a pair.
CarrierIds(s, t) ==
  {id \in {doc.cells[i].id : i \in 1..Len(doc.cells)} \ {""} :
     /\ _is_edge(LastCell(id))
     /\ LastCell(id).source = s
     /\ LastCell(id).target = t}

\* C7 as stated: no two edges of the parsed graph have the same pair, and
\* the edge kept for a pair has the id of the first element, in document
\* order, that carries the pair.
C7_FirstInDocumentOrder ==
  pc = "parsed" =>
    /\ NoPairTwice(pgraph)
    /\ \A i \in 1..Len(pgraph.edges) :
         LET e == pgraph.edges[i] IN
           e.id = doc.cells[FirstCarrier(e.source_id, e.target_id)].id

\* C7 as amended: no two edges have the same pair, and the edge kept for a
\* pair is, among the ids whose last element carries the pair, the id that
\* occurs first in the document; with unique ids that is the first element
\* that carries the pair.
C7_FirstInIndexOrder ==
  pc = "parsed" =>
    /\ NoPairTwice(pgraph)
    /\ \A i \in 1..Len(pgraph.edges) :
         LET e == pgraph.edges[i] IN
           /\ e.id \in CarrierIds(e.source_id, e.target_id)
           /\ \A id \in CarrierIds(e.source_id, e.target_id) :
                FirstIndex(e.id) <= FirstIndex(id)
           /\ UniqueIds => e.id = doc.cells[FirstCarrier(e.source_id, e.target_id)].id

\* Two elements with different ids carry one pair, and the first was kept.
C7_Witness ==
  /\ pc = "parsed"
  /\ UniqueIds
  /\ \E i, j \in 1..Len(doc.cells) :
       /\ i < j
       /\ i \in Carriers(doc.cells[j].source, doc.cells[j].target)
       /\ j \in Carriers(doc.cells[j].source, doc.cells[j].target)
       /\ doc.cells[i].id \in EdgeIds(pgraph)
       /\ doc.cells[j].id \notin EdgeIds(pgraph)

\* The label the claim gives an edge.
ClaimedYesNo(value) ==
  IF Lower(value) \in {"y", "yes"} THEN "yes"
  ELSE IF Lower(value) \in {"n", "no"} THEN "no"
  ELSE ""
Decorations(edge) ==
  {i \in 1..Len(cell_map) :
     cell_map[i].parent = edge.id /\ "edgeLabel" \in cell_map[i].style}
ClaimedLabel(edge) ==
  IF ClaimedYesNo(MapGet(cell_map, edge.id).value) # ""
    THEN ClaimedYesNo(MapGet(cell_map, edge.id).value)
  ELSE IF Decorations(edge) = {} THEN ""
  ELSE ClaimedYesNo(cell_map[CHOOSE i \in Decorations(edge) :
                               \A j \in Decorations(edge) : i <= j].value)

\* C8: the label of an edge is "yes" or "no" by the edge element's own
\* value when that is y/yes/n/no, and in every other case by the first
\* edge-label element parented to the edge, empty when there is none or its
\* value is not y/yes/n/no.
C8_LabelExtraction ==
  pc \in {"labelled", "parsed"} =>
    \A i \in 1..Len(pgraph.edges) : pgraph.edges[i].label = ClaimedLabel(pgraph.edges[i])

SizeIs(value, attr, default) ==
  IF attr = Absent THEN value = default ELSE IsFloat(attr) /\ FloatTable[attr] = value
\* What is extracted for an id is derived from the element Pick(id).
DerivedFrom(Pick(_)) ==
  /\ pc \in {"extracted", "labelled"} =>
       /\ \A i \in 1..Len(pgraph.nodes) :
            LET n == pgraph.nodes[i]
                c == Pick(n.id)
            IN /\ ~_is_edge(c)
               /\ n.node_type = StyleType(c.style)
               /\ SizeIs(n.width, c.width, 120)
               /\ SizeIs(n.height, c.height, 60)
       /\ \A i \in 1..Len(pgraph.edges) :
            LET e == pgraph.edges[i]
                c == Pick(e.id)
            IN _is_edge(c) /\ e.source_id = c.source /\ e.target_id = c.target
  /\ pc = "labelled" =>
       \A i \in 1..Len(pgraph.edges) :
         LET e == pgraph.edges[i]
             c == Pick(e.id)
         IN (c.kids /\ c.value # "") => e.label = ClaimedYesNo(c.value)

\* C9 as stated: the node or edge extracted for an id (its classification,
\* endpoints, size, style-based role and label) is derived from the first
\* element of the document with that id.
C9_FirstOccurrenceWins == DerivedFrom(FirstCell)

\* C9 as amended: it is derived from the last element with that id.
C9_LastOccurrenceWins == DerivedFrom(LastCell)

\* A node was extracted for an id that two elements with different shapes
\* carry.
C9_Witness ==
  /\ pc = "extracted"
  /\ \E i \in 1..Len(pgraph.nodes) :
       /\ FirstIndex(pgraph.nodes[i].id) # LastIndex(pgraph.nodes[i].id)
       /\ StyleType(FirstCell(pgraph.nodes[i].id).style)
            # StyleType(LastCell(pgraph.nodes[i].id).style)

\* The ports the node descriptors of the request declare.
DeclaredPorts ==
  UNION {{elk_graph.children[i].ports[k] : k \in 1..4} : i \in 1..Len(elk_graph.children)}

\* C10: every source port and every target port an edge descriptor names is
\* a port declared by a node descriptor of the same request.
C10_PortsDeclared ==
  pc = "built" =>
    \A k \in 1..Len(elk_graph.edges) :
      /\ elk_graph.edges[k].sources[1] \in DeclaredPorts
      /\ elk_graph.edges[k].targets[1] \in DeclaredPorts

====
